---------------------------- MODULE Spec2Model ----------------------------
(***************************************************************************)
(* The Product CRUD service of the repository, as a state machine.         *)
(*                                                                         *)
(* Two programs share one PostgreSQL table "products":                     *)
(*   "tp1"   src/tp1.py          the desktop program; its handlers call    *)
(*                               create_product, get_product,              *)
(*                               get_all_products, update_product and      *)
(*                               delete_product                            *)
(*   "part2" src/Part2/part2.py  the SOAP program; ProductService's        *)
(*                               CreateProduct, GetProduct, UpdateProduct  *)
(*                               and DeleteProduct                         *)
(* Each program is single threaded, so each runs at most one operation at  *)
(* a time.  An operation is a sequence of steps, one per call the code     *)
(* makes on the session: the validation and SessionLocal(), the query,     *)
(* session.commit() (the flush and the COMMIT), session.refresh(), and the *)
(* return to the caller.  Any call on the store may fail with an           *)
(* SQLAlchemyError.                                                        *)
(***************************************************************************)
EXTENDS Integers, Sequences, FiniteSets, TLC

\* The largest id the sequence of the table hands out in the model.
MaxId == 2

FrontEnds == {"tp1", "part2"}

---------------------------------------------------------------------------
(* Values                                                                  *)

\* A Python float: a number or NaN.  Every comparison with NaN is false.
Num(v) == [nan |-> FALSE, v |-> v]
NaN == [nan |-> TRUE, v |-> 0]
FloatLess(a, b) == ~a.nan /\ ~b.nan /\ a.v < b.v
FloatGeq(a, b) == ~a.nan /\ ~b.nan /\ a.v >= b.v

\* A name argument: None, or a str, which is a sequence of characters.
None == [absent |-> TRUE, text |-> << >>]
Str(t) == [absent |-> FALSE, text |-> t]
Whitespace == {" "}

RECURSIVE lstrip(_)
lstrip(t) ==
    IF t # << >> /\ Head(t) \in Whitespace THEN lstrip(Tail(t)) ELSE t

RECURSIVE rstrip(_)
rstrip(t) ==
    IF t # << >> /\ t[Len(t)] \in Whitespace
    THEN rstrip(SubSeq(t, 1, Len(t) - 1))
    ELSE t

\* str.strip()
strip(t) == rstrip(lstrip(t))

\* The arguments the callers pass.
Names == {None, Str(<< >>), Str(<<" ">>), Str(<<"w">>), Str(<<" ", "w">>)}
Prices == {Num(-1), Num(0), NaN}
Quantities == {-1, 0}
IdArgs == 0 .. MaxId

\* A row of the table products, and the value of a variable that holds None
\* instead of a Product.
Product(id, name, price, quantity) ==
    [id |-> id, name |-> name, price |-> price, quantity |-> quantity]
NoProduct == Product(0, None, Num(-1), -1)

---------------------------------------------------------------------------
(* Validation                                                              *)

\* validate_product without its last check: what C2 rules out.
validate_product_without_quantity(name, price, quantity) ==
    IF name.absent \/ name.text = << >> \/ strip(name.text) = << >>
    THEN "Name cannot be empty"
    ELSE IF FloatLess(price, Num(0))
    THEN "Price must be >= 0"
    ELSE ""

\* validate_product: the message of the ValueError it raises, "" when it
\* raises nothing.  The two programs differ only in the mark before the text.
validate_product(name, price, quantity) ==
    IF name.absent \/ name.text = << >> \/ strip(name.text) = << >>
    THEN "Name cannot be empty"
    ELSE IF FloatLess(price, Num(0))
    THEN "Price must be >= 0"
    ELSE IF quantity < 0
    THEN "Quantity must be >= 0"
    ELSE ""

\* validate_id, of part2.py only.
validate_id(pid) ==
    IF pid <= 0 THEN "Invalid Product ID (must be > 0)" ELSE ""

ValidationMessages ==
    {"Name cannot be empty", "Price must be >= 0", "Quantity must be >= 0",
     "Invalid Product ID (must be > 0)"}


---------------------------------------------------------------------------
(* Calls and what they return                                              *)

Call(op, id, name, price, quantity) ==
    [op |-> op, id |-> id, name |-> name, price |-> price,
     quantity |-> quantity]
NoCall == Call("none", 0, None, Num(0), 0)

\* The calls a program can receive.  part2.py has no operation that lists.
Calls(p) ==
    {Call("create", 0, n, pr, q) : n \in Names, pr \in Prices, q \in Quantities}
    \cup {Call("update", i, n, pr, q) :
            i \in IdArgs, n \in Names, pr \in Prices, q \in Quantities}
    \cup {Call(o, i, None, Num(0), 0) : o \in {"get", "delete"}, i \in IdArgs}
    \cup (IF p = "tp1" THEN {Call("list", 0, None, Num(0), 0)} ELSE {})

\* What a call hands back to its caller.
\*   tp1:   "Product" (rec), "None", "True", "False", "list" (rows),
\*          "ValueError" (msg), "Exception" (msg "Database error")
\*   part2: the text returned: "created" (id), "found" (rec), "updated" (id),
\*          "deleted" (id), "Product not found", "Error" (msg)
Result(kind, id, rec, rows, msg) ==
    [kind |-> kind, id |-> id, rec |-> rec, rows |-> rows, msg |-> msg]
NoResult == Result("none", 0, NoProduct, << >>, "")
Value(kind) == Result(kind, 0, NoProduct, << >>, "")
Record(kind, rec) == Result(kind, 0, rec, << >>, "")
Message(kind, id) == Result(kind, id, NoProduct, << >>, "")
Error(kind, msg) == Result(kind, 0, NoProduct, << >>, msg)

---------------------------------------------------------------------------
(* State                                                                   *)

VARIABLES
    products,   \* the rows of the table products that are committed
    nextId,     \* the next value of the sequence behind products.id
    pc,         \* where each program's operation stands
    call,       \* the call each program is serving
    session,    \* the session of that call: "none", "open" or "closed"
    txn,        \* the session's transaction: "none", "active", "committed",
                \* "rolledback", or "closed" (ended by session.close())
    begun,      \* how many transactions the call has begun
    issued,     \* how many statements the call has sent to the store
    product,    \* the local variable product
    ret,        \* what the call returned or raised
    failedAt,   \* the store call that failed: "none", "query", "flush",
                \* "commit" or "refresh"
    pre,        \* products as it was when the call began
    leaked,     \* whether an earlier call returned with its session open
    origin,     \* per id, the create call that returned it, kept until an
                \* update or a delete of that id is called
    net,        \* the create calls that have returned a record, less the
                \* delete calls that have returned success
    deleted     \* the ids a delete call has returned success for

vars == <<products, nextId, pc, call, session, txn, begun, issued, product,
          ret, failedAt, pre, leaked, origin, net, deleted>>

Init ==
    /\ products = {}
    /\ nextId = 1
    /\ pc = [p \in FrontEnds |-> "idle"]
    /\ call = [p \in FrontEnds |-> NoCall]
    /\ session = [p \in FrontEnds |-> "none"]
    /\ txn = [p \in FrontEnds |-> "none"]
    /\ begun = [p \in FrontEnds |-> 0]
    /\ issued = [p \in FrontEnds |-> 0]
    /\ product = [p \in FrontEnds |-> NoProduct]
    /\ ret = [p \in FrontEnds |-> NoResult]
    /\ failedAt = [p \in FrontEnds |-> "none"]
    /\ pre = [p \in FrontEnds |-> {}]
    /\ leaked = [p \in FrontEnds |-> FALSE]
    /\ origin = [i \in 1 .. MaxId |-> NoCall]
    /\ net = 0
    /\ deleted = {}

\* The filter with <= in the place of ==: what C8 rules out.
RowsWithIdOrBelow(id) == {r \in products : r.id <= id}

\* session.query(Product).filter(Product.id == product_id)
RowsWithId(id) == {r \in products : r.id = id}

\* .first(): the row, or None
first(rows) == IF rows = {} THEN NoProduct ELSE CHOOSE r \in rows : TRUE

\* .all(): the rows in the order the store returns them, which a query
\* without ORDER BY leaves to the store.
RECURSIVE Orders(_)
Orders(rows) ==
    IF rows = {} THEN {<< >>}
    ELSE UNION {{<<r>> \o s : s \in Orders(rows \ {r})} : r \in rows}

---------------------------------------------------------------------------
(* The handlers, step by step                                              *)

\* The checks with validate_product left out of update, so that its values
\* reach the lookup unchecked: what C12 rules out.
ValidateCreateOnly(p, c) ==
    IF c.op = "create"
    THEN validate_product(c.name, c.price, c.quantity)
    ELSE IF p = "tp1" THEN "" ELSE validate_id(c.id)

\* The checks a handler makes before it opens a session: the message of the
\* first ValueError raised, "" when none is.  The functions of tp1.py check
\* the values of a create and an update, and never the id.
Validate(p, c) ==
    IF p = "tp1"
    THEN IF c.op \in {"create", "update"}
         THEN validate_product(c.name, c.price, c.quantity)
         ELSE ""
    ELSE IF c.op = "create"
         THEN validate_product(c.name, c.price, c.quantity)
         ELSE IF c.op = "update"
         THEN IF validate_id(c.id) # ""
              THEN validate_id(c.id)
              ELSE validate_product(c.name, c.price, c.quantity)
         ELSE validate_id(c.id)

\* A ValueError: tp1.py lets it reach the caller, part2.py returns its text.
Rejected(p, msg) ==
    IF p = "tp1" THEN Error("ValueError", msg) ELSE Error("Error", msg)

\* Whether the except clause reached by an SQLAlchemyError calls
\* session.rollback(): create_product, update_product and delete_product do.
RollsBack(p, op) == p = "tp1" /\ op \in {"create", "update", "delete"}

\* Whether session.close() runs on the way out of a failed store call: the
\* finally clauses of tp1.py.
ClosesOnError(p) == p = "tp1"

\* An SQLAlchemyError raised by the store call `at`.  A flush that fails
\* rolls the session's transaction back itself; after a failed query, COMMIT
\* or refresh the transaction is left for the handler to end.
Fail(p, at) ==
    /\ failedAt' = [failedAt EXCEPT ![p] = at]
    /\ pc' = [pc EXCEPT ![p] = "done"]
    /\ txn' = [txn EXCEPT ![p] =
                 IF RollsBack(p, call[p].op) \/ at = "flush" THEN "rolledback"
                 ELSE IF ClosesOnError(p) THEN "closed"
                 ELSE "active"]
    /\ session' = [session EXCEPT ![p] =
                     IF ClosesOnError(p) THEN "closed" ELSE "open"]
    /\ ret' = [ret EXCEPT ![p] =
                 IF p = "tp1" THEN Error("Exception", "Database error")
                 ELSE Error("Error", "SQLAlchemyError")]

\* session.close() on a path that did not fail, and the return.  `state` is
\* the state of the session's transaction when close() is called; close()
\* ends a transaction that is still active.
Finish(p, result, state) ==
    /\ pc' = [pc EXCEPT ![p] = "done"]
    /\ txn' = [txn EXCEPT ![p] = IF state = "active" THEN "closed" ELSE state]
    /\ session' = [session EXCEPT ![p] = "closed"]
    /\ ret' = [ret EXCEPT ![p] = result]
    /\ failedAt' = failedAt

\* A call arrives: the handler validates and, when nothing is raised, calls
\* SessionLocal().
Invoke(p) ==
    /\ pc[p] = "idle"
    /\ \E c \in Calls(p) :
        /\ call' = [call EXCEPT ![p] = c]
        /\ pre' = [pre EXCEPT ![p] = products]
        /\ origin' = [i \in 1 .. MaxId |->
                        IF c.op \in {"update", "delete"} /\ c.id = i
                        THEN NoCall ELSE origin[i]]
        /\ IF Validate(p, c) # ""
           THEN /\ pc' = [pc EXCEPT ![p] = "done"]
                /\ ret' = [ret EXCEPT ![p] = Rejected(p, Validate(p, c))]
                /\ session' = session
           ELSE /\ c.op = "create" => nextId <= MaxId
                /\ pc' = [pc EXCEPT ![p] = "opened"]
                /\ ret' = ret
                /\ session' = [session EXCEPT ![p] = "open"]
    /\ UNCHANGED <<products, nextId, txn, begun, issued, product, failedAt,
                   leaked, net, deleted>>

\* A get whose query has lost its filter: what C7 rules out.
FetchedUnfiltered(p, c, rows) ==
    IF c.op = "list"
    THEN Result("list", 0, NoProduct, rows, "")
    ELSE IF products = {}
    THEN IF p = "tp1" THEN Value("None") ELSE Value("Product not found")
    ELSE IF p = "tp1" THEN Record("Product", first(products))
    ELSE Record("found", first(products))

\* A get that raises when the query finds no row: what C18 rules out.
FetchedOrRaised(p, c, rows) ==
    IF c.op = "list"
    THEN Result("list", 0, NoProduct, rows, "")
    ELSE IF first(RowsWithId(c.id)) = NoProduct
    THEN IF p = "tp1" THEN Error("Exception", "Database error")
         ELSE Error("Error", "SQLAlchemyError")
    ELSE IF p = "tp1" THEN Record("Product", first(RowsWithId(c.id)))
    ELSE Record("found", first(RowsWithId(c.id)))

\* What the handler returns once the query of a get or a list has answered.
Fetched(p, c, rows) ==
    IF c.op = "list"
    THEN Result("list", 0, NoProduct, rows, "")
    ELSE IF first(RowsWithId(c.id)) = NoProduct
    THEN IF p = "tp1" THEN Value("None") ELSE Value("Product not found")
    ELSE IF p = "tp1" THEN Record("Product", first(RowsWithId(c.id)))
    ELSE Record("found", first(RowsWithId(c.id)))

\* A missing row reported as an error: what C9 rules out.
MissingAsError(p, c) ==
    IF p = "tp1" THEN Error("Exception", "Database error")
    ELSE Error("Error", "SQLAlchemyError")

\* What update and delete return when the query found no row.
Missing(p, c) ==
    IF p = "tp1"
    THEN IF c.op = "update" THEN Value("None") ELSE Value("False")
    ELSE Value("Product not found")

\* session.query(Product)...first() or .all(): the session begins its
\* transaction and sends the SELECT.
Query(p) ==
    /\ pc[p] = "opened"
    /\ call[p].op \in {"get", "list", "update", "delete"}
    /\ begun' = [begun EXCEPT ![p] = @ + 1]
    /\ issued' = [issued EXCEPT ![p] = @ + 1]
    /\ \E ok \in BOOLEAN :
        IF ~ok
        THEN Fail(p, "query") /\ product' = product
        ELSE IF call[p].op \in {"get", "list"}
        THEN /\ \E rows \in Orders(IF call[p].op = "list" THEN products ELSE {}) :
                    Finish(p, Fetched(p, call[p], rows), "active")
             /\ product' = [product EXCEPT ![p] = first(RowsWithId(call[p].id))]
        ELSE IF first(RowsWithId(call[p].id)) = NoProduct
        THEN Finish(p, Missing(p, call[p]), "active") /\ product' = product
        ELSE /\ product' = [product EXCEPT ![p] = first(RowsWithId(call[p].id))]
             /\ pc' = [pc EXCEPT ![p] = "loaded"]
             /\ txn' = [txn EXCEPT ![p] = "active"]
             /\ UNCHANGED <<session, ret, failedAt>>
    /\ UNCHANGED <<products, nextId, call, pre, leaked, origin, net,
                   deleted>>


\* An INSERT of the trimmed name: what C6 rules out.
InsertedStripped(id, c) ==
    Product(id, Str(strip(c.name.text)), c.price, c.quantity)

\* An INSERT that takes the lowest id no row has, instead of the value of the
\* sequence: what C11 rules out.
InsertedReusingId(id, c) ==
    Product(CHOOSE i \in 1 .. id :
                /\ RowsWithId(i) = {}
                /\ \A j \in 1 .. (i - 1) : RowsWithId(j) # {},
            c.name, c.price, c.quantity)

\* The row an INSERT of the call's values writes.
Inserted(id, c) == Product(id, c.name, c.price, c.quantity)

\* product.name = name; product.price = price; product.quantity = quantity
Assigned(row, c) ==
    [row EXCEPT !.name = c.name, !.price = c.price, !.quantity = c.quantity]

\* Whether the flush of an update has anything to send: the unit of work
\* sends an UPDATE only for attributes whose value changed.
Dirty(loaded, c) == Assigned(loaded, c) # loaded

\* An UPDATE that writes the loaded row back when no row matches: what C19
\* rules out.
UpdatedOrInserted(rows, loaded, c) ==
    {r \in rows : r.id # loaded.id} \cup {Assigned(loaded, c)}

\* An UPDATE with no WHERE clause, which writes the values to every row: what
\* C13 rules out.
UpdatedEveryRow(rows, loaded, c) ==
    {[r EXCEPT !.name = c.name, !.price = c.price, !.quantity = c.quantity] :
        r \in rows}

\* The table after UPDATE products SET <the changed columns> WHERE id = ...
Updated(rows, loaded, c) ==
    {IF r.id = loaded.id
     THEN [r EXCEPT !.name = IF c.name # loaded.name THEN c.name ELSE @,
                    !.price = IF c.price # loaded.price THEN c.price ELSE @,
                    !.quantity = IF c.quantity # loaded.quantity
                                 THEN c.quantity ELSE @]
     ELSE r : r \in rows}

\* A DELETE with <= in its WHERE clause, which takes the rows of lower ids
\* with it: what C14 rules out.
DeletedUpTo(rows, id) == {r \in rows : r.id > id}

\* The table after DELETE FROM products WHERE id = ...
Deleted(rows, id) == {r \in rows : r.id # id}

\* The table after the flush of the call, were it to commit.
Flushed(p) ==
    IF call[p].op = "create" THEN products \cup {Inserted(nextId, call[p])}
    ELSE IF call[p].op = "update"
    THEN Updated(products, product[p], call[p])
    ELSE Deleted(products, product[p].id)

\* Whether the flush sends a statement.
Sends(p) == call[p].op = "update" => Dirty(product[p], call[p])

\* Whether the statement of the flush finds the row it was loaded for: an
\* UPDATE that matches no row raises StaleDataError, a DELETE that matches
\* none only warns.
Stale(p) ==
    /\ call[p].op = "update"
    /\ Dirty(product[p], call[p])
    /\ RowsWithId(product[p].id) = {}

\* What the handler returns after a commit with no refresh to follow.
Committed(p, c) ==
    IF c.op = "delete"
    THEN IF p = "tp1" THEN Value("True") ELSE Message("deleted", c.id)
    ELSE Message("updated", c.id)

\* Whether the handler calls session.refresh(product) after the commit.
Refreshes(p, op) == op = "create" \/ (op = "update" /\ p = "tp1")

\* session.add / the assignments / session.delete, then session.commit(): the
\* flush sends the INSERT, UPDATE or DELETE and the COMMIT makes it durable.
\* The sequence gives out its value when the INSERT runs, and does not take
\* it back.
Commit(p) ==
    /\ \/ pc[p] = "opened" /\ call[p].op = "create"
       \/ pc[p] = "loaded"
    /\ begun' = [begun EXCEPT ![p] = IF txn[p] = "none" THEN @ + 1 ELSE @]
    /\ issued' = [issued EXCEPT ![p] = IF Sends(p) THEN @ + 1 ELSE @]
    /\ \E outcome \in {"ok", "flush", "commit"} :
        IF outcome = "flush" \/ (outcome = "ok" /\ Stale(p))
        THEN /\ Sends(p)
             /\ Fail(p, "flush")
             /\ \E used \in BOOLEAN :
                    nextId' = IF call[p].op = "create" /\ used
                              THEN nextId + 1 ELSE nextId
             /\ UNCHANGED <<products, product, net, deleted>>
        ELSE IF outcome = "commit"
        THEN /\ Fail(p, "commit")
             /\ nextId' = IF call[p].op = "create" THEN nextId + 1 ELSE nextId
             /\ UNCHANGED <<products, product, net, deleted>>
        ELSE /\ products' = Flushed(p)
             /\ net' = IF call[p].op = "delete" THEN net - 1 ELSE net
             /\ deleted' = IF call[p].op = "delete"
                           THEN deleted \cup {product[p].id} ELSE deleted
             /\ nextId' = IF call[p].op = "create" THEN nextId + 1 ELSE nextId
             /\ product' = [product EXCEPT ![p] =
                              IF call[p].op = "create"
                              THEN Inserted(nextId, call[p])
                              ELSE IF call[p].op = "update"
                              THEN Assigned(@, call[p])
                              ELSE @]
             /\ IF Refreshes(p, call[p].op)
                THEN /\ pc' = [pc EXCEPT ![p] = "committed"]
                     /\ txn' = [txn EXCEPT ![p] = "committed"]
                     /\ UNCHANGED <<session, ret, failedAt>>
                ELSE Finish(p, Committed(p, call[p]), "committed")
    /\ UNCHANGED <<call, pre, leaked, origin>>

\* What create and update return after the refresh.
Refreshed(p, c, row) ==
    IF p = "tp1" THEN Record("Product", row) ELSE Message("created", row.id)

\* session.refresh(product): the session begins another transaction and
\* reads the row again; a row that is gone raises InvalidRequestError.
Refresh(p) ==
    /\ pc[p] = "committed"
    /\ begun' = [begun EXCEPT ![p] = @ + 1]
    /\ issued' = [issued EXCEPT ![p] = @ + 1]
    /\ \E ok \in BOOLEAN :
        IF ~ok \/ RowsWithId(product[p].id) = {}
        THEN Fail(p, "refresh") /\ UNCHANGED <<product, origin, net>>
        ELSE /\ product' = [product EXCEPT ![p] = first(RowsWithId(@.id))]
             /\ Finish(p, Refreshed(p, call[p], first(RowsWithId(product[p].id))),
                       "active")
             /\ origin' = IF call[p].op = "create"
                          THEN [origin EXCEPT ![product[p].id] = call[p]]
                          ELSE origin
             /\ net' = IF call[p].op = "create" THEN net + 1 ELSE net
    /\ UNCHANGED <<products, nextId, call, pre, leaked, deleted>>

\* The caller has the result; the handler's locals are gone.  A session the
\* handler did not close stays open.
Return(p) ==
    /\ pc[p] = "done"
    /\ leaked' = [leaked EXCEPT ![p] = @ \/ session[p] = "open"]
    /\ pc' = [pc EXCEPT ![p] = "idle"]
    /\ call' = [call EXCEPT ![p] = NoCall]
    /\ session' = [session EXCEPT ![p] = "none"]
    /\ txn' = [txn EXCEPT ![p] = "none"]
    /\ begun' = [begun EXCEPT ![p] = 0]
    /\ issued' = [issued EXCEPT ![p] = 0]
    /\ product' = [product EXCEPT ![p] = NoProduct]
    /\ ret' = [ret EXCEPT ![p] = NoResult]
    /\ failedAt' = [failedAt EXCEPT ![p] = "none"]
    /\ pre' = [pre EXCEPT ![p] = {}]
    /\ UNCHANGED <<products, nextId, origin, net, deleted>>

---------------------------------------------------------------------------
(* Specifications                                                          *)

\* No other program has an operation in progress.
Quiet(p) == \A q \in FrontEnds \ {p} : pc[q] = "idle"

\* Calls one at a time, from either program.
Next ==
    \E p \in FrontEnds :
        \/ Quiet(p) /\ Invoke(p)
        \/ Query(p)
        \/ Commit(p)
        \/ Refresh(p)
        \/ Return(p)

Spec == Init /\ [][Next]_vars

\* The calls made while another call is in progress: creates, and updates
\* and deletes of the first record.
ConcurrentCalls ==
    {Call("create", 0, Str(<<"w">>), Num(0), 0),
     Call("update", 1, Str(<<" ", "w">>), Num(0), 0),
     Call("delete", 1, None, Num(0), 0)}

\* The two programs at work on the one database at the same time: a call of
\* one may arrive, and its statements run, between the statements of a call
\* of the other.  The store answers every statement: the only errors are the
\* ones the interleaving brings about, an UPDATE that matches no row and a
\* refresh of a row that is gone.
NextConcurrent ==
    \E p \in FrontEnds :
        \/ \E c \in ConcurrentCalls :
                call' = [call EXCEPT ![p] = c] /\ Invoke(p)
        \/ Query(p) /\ failedAt'[p] = "none"
        \/ Commit(p) /\ (failedAt'[p] = "none" \/ Stale(p))
        \/ Refresh(p) /\ (failedAt'[p] = "none"
                              \/ RowsWithId(product[p].id) = {})
        \/ Return(p)

SpecConcurrent == Init /\ [][NextConcurrent]_vars

---------------------------------------------------------------------------
(* The terms of the specification                                          *)

\* InvalidInput: a ValueError raised (tp1.py) or its text returned (part2.py).
InvalidInput(r) ==
    \/ r.kind = "ValueError"
    \/ r.kind = "Error" /\ r.msg \in ValidationMessages

\* StoreError: the Exception create_product and the others raise in their
\* except clause, or the text of the SQLAlchemyError part2.py returns.
StoreError(r) ==
    \/ r.kind = "Exception"
    \/ r.kind = "Error" /\ r.msg = "SQLAlchemyError"

\* The not-found outcome: None, False, or the text "Product not found".
NotFound(r) == r.kind \in {"None", "False", "Product not found"}

\* A name that is absent, empty or made of whitespace only.
Blank(name) ==
    name.absent \/ \A i \in 1 .. Len(name.text) : name.text[i] \in Whitespace

\* Values the specification calls invalid, and values it calls valid.
InvalidValues(c) ==
    Blank(c.name) \/ FloatLess(c.price, Num(0)) \/ c.quantity < 0
ValidValues(c) ==
    ~Blank(c.name) /\ FloatGeq(c.price, Num(0)) /\ c.quantity >= 0

\* The rows with a given id when the call of p began.
RowsBefore(p, id) == {r \in pre[p] : r.id = id}

---------------------------------------------------------------------------
(* C1..C10                                                                 *)

\* C1: for every id <= 0, Read, Update and Delete fail with InvalidInput
\* without touching the store (no session opened, no statement sent), in
\* tp1.py as in part2.py.
C1_NonPositiveIdRejected ==
    \A p \in FrontEnds :
        (call[p].op \in {"get", "update", "delete"} /\ call[p].id <= 0)
        => /\ session[p] = "none"
           /\ issued[p] = 0
           /\ pc[p] = "done" => InvalidInput(ret[p])

\* C2: a create or an update with price < 0, quantity < 0 or a name that is
\* absent, empty or whitespace-only fails with InvalidInput, and the stored
\* records are the same after the call as before it, whatever they were.
C2_InvalidValuesRejected ==
    \A p \in FrontEnds :
        (call[p].op \in {"create", "update"} /\ InvalidValues(call[p]))
        => /\ pc[p] = "done"
           /\ InvalidInput(ret[p])
           /\ products = pre[p]
           /\ session[p] = "none"
           /\ issued[p] = 0

C2_Witness ==
    \E p \in FrontEnds :
        /\ pc[p] = "done"
        /\ call[p].op = "update"
        /\ InvalidValues(call[p])
        /\ RowsWithId(call[p].id) # {}
        /\ InvalidInput(ret[p])

\* C3: every persisted product has a name that is non-empty after trimming,
\* price >= 0, quantity >= 0, and an id no other persisted product has.
C3_PersistedProductsValid ==
    \A r \in products :
        /\ ~r.name.absent
        /\ strip(r.name.text) # << >>
        /\ FloatGeq(r.price, Num(0))
        /\ r.quantity >= 0
        /\ \A s \in products : s.id = r.id => s = r

\* C4: when the store fails during a create, an update or a delete, at the
\* query, the flush or the commit, the transaction of the operation is rolled
\* back and the records are what they were before the call, in both programs.
C4_StoreFailureRollsBack ==
    \A p \in FrontEnds :
        (/\ pc[p] = "done"
         /\ call[p].op \in {"create", "update", "delete"}
         /\ failedAt[p] \in {"query", "flush", "commit"})
        => txn[p] = "rolledback" /\ products = pre[p]

\* C5: every operation releases the session it acquired on every exit path:
\* a program with no operation in progress has no session open.
C5_SessionsReleased ==
    \A p \in FrontEnds :
        pc[p] \in {"idle", "done"} => session[p] # "open" /\ ~leaked[p]

\* C6 as stated: a create of valid values that meets no store failure
\* succeeds, adds exactly one record, and returns a record whose name, price
\* and quantity are the inputs and whose id is positive and new.
C6_CreateReturnsRecord ==
    \A p \in FrontEnds :
        (/\ pc[p] = "done"
         /\ call[p].op = "create"
         /\ ValidValues(call[p])
         /\ failedAt[p] = "none")
        => /\ ~InvalidInput(ret[p]) /\ ~StoreError(ret[p])
           /\ pre[p] \subseteq products
           /\ Cardinality(products \ pre[p]) = 1
           /\ ret[p].rec.name = call[p].name
           /\ ret[p].rec.price = call[p].price
           /\ ret[p].rec.quantity = call[p].quantity
           /\ ret[p].rec.id > 0
           /\ \A r \in pre[p] : r.id # ret[p].rec.id

\* C6, amended: such a create succeeds and adds exactly one record, whose
\* name, price and quantity are the inputs and whose id is positive and new;
\* create_product returns that record, CreateProduct returns the text that
\* carries its id.
C6_CreateAddsRecord ==
    \A p \in FrontEnds :
        (/\ pc[p] = "done"
         /\ call[p].op = "create"
         /\ ValidValues(call[p])
         /\ failedAt[p] = "none")
        => /\ ~InvalidInput(ret[p]) /\ ~StoreError(ret[p])
           /\ pre[p] \subseteq products
           /\ Cardinality(products \ pre[p]) = 1
           /\ \A r \in products \ pre[p] :
                /\ r.name = call[p].name
                /\ r.price = call[p].price
                /\ r.quantity = call[p].quantity
                /\ r.id > 0
                /\ \A s \in pre[p] : s.id # r.id
                /\ IF p = "tp1"
                   THEN ret[p].kind = "Product" /\ ret[p].rec = r
                   ELSE ret[p].kind = "created" /\ ret[p].id = r.id

C6_Witness ==
    \E p \in FrontEnds :
        /\ pc[p] = "done"
        /\ call[p].op = "create"
        /\ ValidValues(call[p])
        /\ failedAt[p] = "none"
        /\ ret[p].kind = "created"
        /\ pre[p] # {}
        /\ Cardinality(products) = Cardinality(pre[p]) + 1

\* C7: when a create of P has returned id i, a read of i made before any
\* update or delete of i returns the record (i, P.name, P.price, P.quantity).
C7_CreateReadRoundTrip ==
    \A p \in FrontEnds :
        (/\ pc[p] = "done"
         /\ call[p].op = "get"
         /\ call[p].id \in 1 .. MaxId
         /\ failedAt[p] = "none")
        => (origin[call[p].id] # NoCall
            => /\ ret[p].kind \in {"Product", "found"}
               /\ ret[p].rec = Product(call[p].id,
                                       origin[call[p].id].name,
                                       origin[call[p].id].price,
                                       origin[call[p].id].quantity))

C7_Witness ==
    \E p \in FrontEnds :
        /\ pc[p] = "done"
        /\ call[p].op = "get"
        /\ call[p].id \in 1 .. MaxId
        /\ origin[call[p].id] # NoCall
        /\ Cardinality(products) > 1
        /\ ret[p].kind = "found"
        /\ ret[p].rec.name = origin[call[p].id].name

\* C8: an update with valid values of an id that has no record returns
\* not-found, not an error, writes nothing, and leaves the number of records
\* and every record as they were.
C8_UpdateAbsentNotFound ==
    \A p \in FrontEnds :
        (/\ call[p].op = "update"
         /\ call[p].id > 0
         /\ ValidValues(call[p])
         /\ RowsBefore(p, call[p].id) = {})
        => /\ products = pre[p]
           /\ issued[p] <= 1
           /\ txn[p] # "committed"
           /\ (pc[p] = "done" /\ failedAt[p] = "none")
              => NotFound(ret[p])

C8_Witness ==
    \E p \in FrontEnds :
        /\ pc[p] = "done"
        /\ call[p].op = "update"
        /\ call[p].id > 0
        /\ ValidValues(call[p])
        /\ RowsBefore(p, call[p].id) = {}
        /\ products # {}
        /\ NotFound(ret[p])

\* C9: a delete of an id that has no record returns the not-found value, never
\* an error, and leaves the store as it was, so that the id still has no
\* record and the next delete of it meets the same case.
C9_DeleteAbsentNotFound ==
    \A p \in FrontEnds :
        (/\ call[p].op = "delete"
         /\ call[p].id > 0
         /\ RowsBefore(p, call[p].id) = {})
        => /\ products = pre[p]
           /\ RowsWithId(call[p].id) = {}
           /\ issued[p] <= 1
           /\ (pc[p] = "done" /\ failedAt[p] = "none")
              => /\ NotFound(ret[p])
                 /\ ~StoreError(ret[p])
                 /\ ~InvalidInput(ret[p])

C9_Witness ==
    \E p \in FrontEnds :
        /\ pc[p] = "done"
        /\ call[p].op = "delete"
        /\ call[p].id > 0
        /\ call[p].id < nextId
        /\ RowsBefore(p, call[p].id) = {}
        /\ products # {}
        /\ NotFound(ret[p])

\* The records in a sequence.
Range(rows) == {rows[i] : i \in 1 .. Len(rows)}

\* C10: a list returns every stored record and nothing else: the empty
\* sequence when no create has succeeded, and exactly N - M records after N
\* successful creates and M successful deletes.
C10_ListReturnsCreatedLessDeleted ==
    \A p \in FrontEnds :
        (pc[p] = "done" /\ call[p].op = "list" /\ failedAt[p] = "none")
        => /\ ret[p].kind = "list"
           /\ Range(ret[p].rows) = products
           /\ Len(ret[p].rows) = Cardinality(products)
           /\ Len(ret[p].rows) = net

---------------------------------------------------------------------------
(* C11..C20                                                                *)

\* The id a create hands back: the id of the record (tp1.py) or the id in the
\* text (part2.py).
ReturnedId(r) == IF r.kind = "Product" THEN r.rec.id ELSE r.id

\* C11: once a delete of an id has returned success, no record has that id in
\* any later state, every later read or delete of it that meets no store
\* failure returns not-found, and no later create returns that id.
C11_DeletedIdsStayGone ==
    /\ \A i \in deleted : RowsWithId(i) = {}
    /\ \A p \in FrontEnds :
         (pc[p] = "done" /\ failedAt[p] = "none")
         => /\ (/\ call[p].op \in {"get", "delete"}
                /\ call[p].id \in deleted
                /\ RowsBefore(p, call[p].id) = {})
               => NotFound(ret[p])
            /\ (call[p].op = "create" /\ Validate(p, call[p]) = "")
               => /\ ret[p].kind \in {"Product", "created"}
                  /\ ReturnedId(ret[p]) \notin deleted

C11_Witness ==
    \E p \in FrontEnds :
        /\ pc[p] = "done"
        /\ call[p].op = "create"
        /\ ret[p].kind = "created"
        /\ deleted # {}
        /\ ReturnedId(ret[p]) \notin deleted
        /\ RowsWithId(ReturnedId(ret[p])) # {}

\* C12: an update whose name, price or quantity is invalid fails with
\* InvalidInput whether or not a record has its id: the values are checked
\* before the lookup, so the call has opened no session, begun no transaction,
\* sent no query and loaded no row by the time it fails.
C12_UpdateValidatesBeforeLookup ==
    \A p \in FrontEnds :
        (call[p].op = "update" /\ InvalidValues(call[p]))
        => /\ pc[p] = "done"
           /\ InvalidInput(ret[p])
           /\ ~NotFound(ret[p])
           /\ begun[p] = 0
           /\ issued[p] = 0
           /\ product[p] = NoProduct
           /\ txn[p] = "none"

C12_Witness ==
    /\ pc["tp1"] = "done"
    /\ call["tp1"].op = "update"
    /\ ~Blank(call["tp1"].name)
    /\ FloatGeq(call["tp1"].price, Num(0))
    /\ call["tp1"].quantity < 0
    /\ RowsWithId(call["tp1"].id) # {}
    /\ ret["tp1"].kind = "ValueError"
    /\ issued["tp1"] = 0

\* The record an update of valid values leaves under the id of the call.
UpdatedRecord(c) == Product(c.id, c.name, c.price, c.quantity)

\* C13 as stated: an update of valid values on an id that has a record, which
\* meets no store failure, puts the inputs in the place of that record's name,
\* price and quantity, keeps its id, returns the updated record, and leaves
\* every other record and the number of records as they were.
C13_UpdateReturnsRecord ==
    \A p \in FrontEnds :
        (/\ pc[p] = "done"
         /\ call[p].op = "update"
         /\ ValidValues(call[p])
         /\ RowsBefore(p, call[p].id) # {}
         /\ failedAt[p] = "none")
        => /\ products = (pre[p] \ RowsBefore(p, call[p].id))
                            \cup {UpdatedRecord(call[p])}
           /\ Cardinality(products) = Cardinality(pre[p])
           /\ ret[p].rec = UpdatedRecord(call[p])

\* C13, amended: such an update changes the store as stated; update_product
\* returns the updated record, UpdateProduct returns the text that carries
\* its id.
C13_UpdateReplacesRecord ==
    \A p \in FrontEnds :
        (/\ pc[p] = "done"
         /\ call[p].op = "update"
         /\ ValidValues(call[p])
         /\ RowsBefore(p, call[p].id) # {}
         /\ failedAt[p] = "none")
        => /\ products = (pre[p] \ RowsBefore(p, call[p].id))
                            \cup {UpdatedRecord(call[p])}
           /\ Cardinality(products) = Cardinality(pre[p])
           /\ IF p = "tp1"
              THEN ret[p].kind = "Product" /\ ret[p].rec = UpdatedRecord(call[p])
              ELSE ret[p].kind = "updated" /\ ret[p].id = call[p].id

C13_Witness ==
    \E p \in FrontEnds :
        /\ pc[p] = "done"
        /\ call[p].op = "update"
        /\ ValidValues(call[p])
        /\ failedAt[p] = "none"
        /\ ret[p].kind = "updated"
        /\ Cardinality(pre[p]) = 2
        /\ \E r \in RowsBefore(p, call[p].id) : r.name # call[p].name
        /\ UpdatedRecord(call[p]) \in products

\* The success indicator of a delete: True, or the text of DeleteProduct.
DeleteSucceeded(r, id) ==
    r.kind = "True" \/ (r.kind = "deleted" /\ r.id = id)

\* C14: a delete of an id that has a record, which meets no store failure,
\* removes that record and no other, commits, and returns the success
\* indicator.  The record is in the store until the commit and out of it from
\* then on: no read finds it and no list holds it afterwards.
C14_DeleteRemovesRecord ==
    \A p \in FrontEnds :
        /\ (/\ call[p].op = "delete"
            /\ RowsBefore(p, call[p].id) # {}
            /\ failedAt[p] = "none")
           => IF pc[p] = "done"
              THEN /\ products = pre[p] \ RowsBefore(p, call[p].id)
                   /\ Cardinality(products) = Cardinality(pre[p]) - 1
                   /\ txn[p] = "committed"
                   /\ DeleteSucceeded(ret[p], call[p].id)
                   /\ call[p].id \in deleted
              ELSE products = pre[p]
        /\ (pc[p] = "done" /\ failedAt[p] = "none" /\ call[p].op = "get")
           => (call[p].id \in deleted => NotFound(ret[p]))
        /\ (pc[p] = "done" /\ failedAt[p] = "none" /\ call[p].op = "list")
           => \A r \in Range(ret[p].rows) : r.id \notin deleted

C14_Witness ==
    /\ pc["tp1"] = "done"
    /\ call["tp1"].op = "delete"
    /\ ret["tp1"].kind = "True"
    /\ Cardinality(pre["tp1"]) = 2
    /\ Cardinality(products) = 1
    /\ RowsWithId(call["tp1"].id) = {}

\* C15: an operation that reaches the store uses one session and one
\* transaction, begun and ended within the call: it never begins a second
\* transaction, after its commit or otherwise, and when it meets no store
\* failure it returns with its one transaction over and its session closed.
\* Every call has a session of its own, made by its own SessionLocal().
C15_OneSessionOneTransaction ==
    \A p \in FrontEnds :
        /\ begun[p] <= 1
        /\ (pc[p] = "done" /\ failedAt[p] = "none" /\ session[p] # "none")
           => /\ begun[p] = 1
              /\ session[p] = "closed"
              /\ txn[p] \in {"committed", "closed"}

\* The kind of outcome a result is.
Outcome(r) ==
    IF InvalidInput(r) THEN "InvalidInput"
    ELSE IF StoreError(r) THEN "StoreError"
    ELSE IF NotFound(r) THEN "not-found"
    ELSE "success"

\* The kind of outcome the handler of program q has for the call c made on
\* the table rows, when the store call `at` fails ("none": no failure): it
\* validates, goes to the store, and tells a missing row from a row.
OutcomeOf(q, c, rows, at) ==
    IF Validate(q, c) # "" THEN "InvalidInput"
    ELSE IF at # "none" THEN "StoreError"
    ELSE IF c.op # "create" /\ {r \in rows : r.id = c.id} = {} THEN "not-found"
    ELSE "success"

\* C16: a create, a get, an update or a delete has the same kind of outcome
\* (success, not-found, InvalidInput, StoreError) in tp1.py as in part2.py:
\* what one program reports for a call is what the handler of either program
\* has for that call on that table, and a call that does not succeed leaves
\* the table as it was.
C16_SameOutcomeInBothPrograms ==
    \A p \in FrontEnds, q \in FrontEnds :
        (pc[p] = "done" /\ call[p].op \in {"create", "get", "update", "delete"})
        => /\ Outcome(ret[p]) = OutcomeOf(q, call[p], pre[p], failedAt[p])
           /\ Outcome(ret[p]) \in {"InvalidInput", "not-found"}
              => products = pre[p]

\* C17: validate_product, as create calls it, raises the error of the first
\* check that fails, name before price before quantity: the name error for an
\* absent or blank name whatever the price and the quantity, the price error
\* for a valid name and price < 0 whatever the quantity, the quantity error
\* only for a valid name, a valid price (>= 0) and quantity < 0, and nothing
\* exactly when the three values are valid.
C17_FirstFailingCheck ==
    \A p \in FrontEnds :
        (call[p].op = "create" /\ pc[p] # "idle")
        => /\ Blank(call[p].name)
              => ret[p].msg = "Name cannot be empty"
           /\ (~Blank(call[p].name) /\ FloatLess(call[p].price, Num(0)))
              => ret[p].msg = "Price must be >= 0"
           /\ ret[p].msg = "Quantity must be >= 0"
              => /\ ~Blank(call[p].name)
                 /\ FloatGeq(call[p].price, Num(0))
                 /\ call[p].quantity < 0
           /\ session[p] # "none" <=> ValidValues(call[p])

\* C18: a get and a list change nothing: at every point of the call and on
\* every way out of it, a store failure included, the table is what it was
\* when the call began, and the call has sent one statement at most and
\* committed nothing.  A get of an id > 0 that meets no store failure returns
\* the record of that id when there is one, and not-found, which is not an
\* error, when there is none.
C18_ReadsChangeNothing ==
    \A p \in FrontEnds :
        call[p].op \in {"get", "list"}
        => /\ products = pre[p]
           /\ issued[p] <= 1
           /\ txn[p] \notin {"committed", "rolledback"}
           /\ (/\ pc[p] = "done"
               /\ failedAt[p] = "none"
               /\ call[p].op = "get"
               /\ call[p].id > 0)
              => IF RowsBefore(p, call[p].id) = {}
                 THEN /\ NotFound(ret[p])
                      /\ ~StoreError(ret[p])
                      /\ ~InvalidInput(ret[p])
                 ELSE /\ ret[p].kind \in {"Product", "found"}
                      /\ ret[p].rec \in RowsBefore(p, call[p].id)

C18_Witness ==
    /\ pc["tp1"] = "done"
    /\ call["tp1"].op = "get"
    /\ ret["tp1"].kind = "Product"
    /\ ret["tp1"].rec \in products
    /\ Cardinality(products) = 2
    /\ products = pre["tp1"]

\* C19: an update never brings a deleted record back: when an update has
\* looked its row up and a delete of the same id commits and returns success,
\* before or after the commit of the update, the id has no record from then
\* on, whatever the update goes on to do.
C19_UpdateNeverResurrects ==
    \A p \in FrontEnds :
        (call[p].op = "update" /\ product[p] # NoProduct)
        => \A i \in deleted : \A r \in products : r.id # i

C19_Witness ==
    \E p \in FrontEnds, q \in FrontEnds :
        /\ call[p].op = "update"
        /\ call[q].op = "delete"
        /\ product[p].id = product[q].id
        /\ product[p].id \in deleted
        /\ pc[q] = "done"
        /\ DeleteSucceeded(ret[q], call[q].id)
        /\ pc[p] = "done"
        /\ failedAt[p] = "flush"
        /\ RowsWithId(product[p].id) = {}

\* C20: of two deletes of the same record that both look the row up before
\* either commits, one at most returns the success indicator, the other
\* returning not-found or a store error.
C20_OneDeleteSucceeds ==
    \A p \in FrontEnds, q \in FrontEnds :
        (/\ p # q
         /\ call[p].op = "delete" /\ call[q].op = "delete"
         /\ product[p] # NoProduct
         /\ product[p].id = product[q].id
         /\ pc[p] = "done" /\ pc[q] = "done")
        => /\ ~(/\ DeleteSucceeded(ret[p], call[p].id)
                /\ DeleteSucceeded(ret[q], call[q].id))
           /\ DeleteSucceeded(ret[p], call[p].id)
              => NotFound(ret[q]) \/ StoreError(ret[q])

=============================================================================
